---- MODULE Spec2Model ----
(***************************************************************************)
(* A model of the weather and amenity enrichment scripts:                  *)
(*   scripts/common.py                  strip_srid                         *)
(*   scripts/noaa_weather_join.py       ncei_request, haversine_km,        *)
(*                                      find_nearest_station,              *)
(*                                      fetch_daily_chunked, main          *)
(*   scripts/osm_infrastructure_join.py main                               *)
(*                                                                         *)
(* Calendar dates are day numbers.  A timestamp string is a record         *)
(* [ok, day, hour, off] (local day, local hour, UTC offset in hours; ok is *)
(* FALSE for an unparseable string).  An optional value is <<>> (null,     *)
(* NaN) or <<v>>.  A response body is known by its length, by whether it   *)
(* is JSON and by the JSON value it parses to.  Sleeps are recorded, not   *)
(* timed.                                                                  *)
(***************************************************************************)
EXTENDS Integers, Sequences, FiniteSets, TLC

VARIABLES
    req,            \* the running ncei_request call: loop index, calls, sleeps, outcome
    spc,            \* find_nearest_station: "idle" | "request" | "returned" | "raised"
    origin,         \* find_nearest_station: (lat, lon) of the query origin
    best,           \* find_nearest_station: the value returned
    fpc,            \* fetch_daily_chunked: "idle" | "loop" | "returned"
    start_dt,       \* fetch_daily_chunked: start_dt
    end_dt,         \* fetch_daily_chunked: end_dt
    chunk_days,     \* fetch_daily_chunked: chunk_days
    current,        \* fetch_daily_chunked: the cursor
    frames,         \* fetch_daily_chunked: the frames collected so far
    requests,       \* the chunk requests issued so far, with the outcome of each
    daily,          \* fetch_daily_chunked: the table returned
    mpc,            \* weather main: its position
    events,         \* weather main: the events table
    joined,         \* weather main: the joined table
    written,        \* weather main: whether the output file was written
    calls,          \* weather main: ncei_request calls made, by endpoint
    gpc,            \* strip_srid harness: "input" | "done"
    geom,           \* strip_srid: the input string (a sequence of characters)
    once,           \* strip_srid(geom)
    twice,          \* strip_srid(strip_srid(geom))
    opc,            \* amenity main: its position
    perims,         \* amenity main: the geom column of the perimeter table
    centroids,      \* amenity main: the centroids list
    pos,            \* amenity main: index of the next centroid of the query loop
    timeline,       \* amenity main: the queries sent and the sleeps taken, in order
    all_rows        \* amenity main: the rows collected

reqVars     == <<req>>
stationVars == <<spc, origin, best>>
fetchVars   == <<fpc, start_dt, end_dt, chunk_days, current, frames, requests, daily>>
mainVars    == <<mpc, events, joined, written, calls>>
sridVars    == <<gpc, geom, once, twice>>
osmVars     == <<opc, perims, centroids, pos, timeline, all_rows>>
vars == <<req, spc, origin, best, fpc, start_dt, end_dt, chunk_days, current,
          frames, requests, daily, mpc, events, joined, written, calls,
          gpc, geom, once, twice, opc, perims, centroids, pos, timeline, all_rows>>

\* An optional value: null / NaN / NaT, or a value.
Null == <<>>
Some(v) == <<v>>

Min(a, b) == IF a <= b THEN a ELSE b

\* ------------------------------------------------------------------------
\* ncei_request (noaa_weather_join.py 21-37)
\* ------------------------------------------------------------------------

manual_retries == 2
TextLimit == 400

\* The status codes a response may carry: one of each class requests can hand back.
StatusCodes == {200, 304, 404, 503}
\* Response body lengths around the truncation limit.
TextLens == {0, TextLimit, TextLimit + 1}

\* A parsed JSON body: a dict or not, with a "results" key or not, and its results.
NoJson == [dict |-> FALSE, has |-> FALSE, results |-> <<>>]

\* What one session.get call can do: hand back a response, or raise.
GetOutcomes(jsSet, lens) ==
    [kind : {"response"}, status : StatusCodes, textLen : lens, valid : {TRUE}, js : jsSet]
    \cup [kind : {"response"}, status : StatusCodes, textLen : lens, valid : {FALSE},
          js : {NoJson}]
    \cup [kind : {"ReadTimeout", "ConnectionError", "TooManyRedirects"},
          status : {0}, textLen : {0}, valid : {FALSE}, js : {NoJson}]

\* Response.raise_for_status raises HTTPError for a 4xx or 5xx status only.
raise_for_status(status) == 400 <= status /\ status < 600

\* The whole body in the message, not its first 400 characters.
text_slice_whole(textLen) == textLen

\* r.text[:400]
text_slice(textLen) == Min(textLen, TextLimit)

NoExc == [type |-> "none", status |-> 0, textLen |-> 0]

NewRequest ==
    [state |-> "running", i |-> 0, log |-> <<>>, sleeps |-> <<>>, exc |-> NoExc,
     ret |-> NoJson]

NoRequest == [NewRequest EXCEPT !.state = "idle"]

\* A back-off that forgets the + 1: no sleep after the first failure.
retry_sleep_from_zero(i) == 2 * i

\* The sleep of the except branch after failed attempt i.
retry_sleep(i) == 2 * (i + 1)

\* Whether the except branch of attempt i retries.
retry_again(i) == i < manual_retries

\* One iteration of the for loop: one session.get, then what the try block and its
\* except clauses do with the outcome.
ncei_attempt(st, out) ==
    LET called == [st EXCEPT !.log = Append(@, out)] IN
    CASE out.kind = "response" /\ raise_for_status(out.status) ->
            [called EXCEPT !.state = "raised",
                           !.exc = [type |-> "RuntimeError", status |-> out.status,
                                    textLen |-> text_slice(out.textLen)]]
      [] out.kind = "response" /\ ~out.valid ->
            [called EXCEPT !.state = "raised",
                           !.exc = [type |-> "JSONDecodeError", status |-> 0, textLen |-> 0]]
      [] out.kind = "response" ->
            [called EXCEPT !.state = "returned", !.ret = out.js]
      [] out.kind \in {"ReadTimeout", "ConnectionError"} ->
            IF retry_again(st.i)
            THEN [called EXCEPT !.i = @ + 1,
                                !.sleeps = Append(@, [after |-> st.i, secs |-> retry_sleep(st.i)])]
            ELSE [called EXCEPT !.state = "raised",
                                !.exc = [type |-> out.kind, status |-> 0, textLen |-> 0]]
      [] OTHER ->
            [called EXCEPT !.state = "raised",
                           !.exc = [type |-> out.kind, status |-> 0, textLen |-> 0]]

ReqIdle == req = NoRequest

\* A stand-alone ncei_request call: one loop iteration per step.
NceiAttempt ==
    /\ req.state = "running"
    /\ \E out \in GetOutcomes({[dict |-> TRUE, has |-> TRUE, results |-> <<>>]}, TextLens) :
            req' = ncei_attempt(req, out)
    /\ UNCHANGED <<stationVars, fetchVars, mainVars, sridVars, osmVars>>

\* ------------------------------------------------------------------------
\* haversine_km, find_nearest_station (noaa_weather_join.py 44-73)
\* ------------------------------------------------------------------------

MaxStations == 3

Abs(x) == IF x < 0 THEN 0 - x ELSE x

\* The points stations and origins are drawn from, in degrees.
GridLats == {0, 40}
GridLons == {0, 10, 20}
GridPoints == [lat : GridLats, lon : GridLons]

\* haversine_km on the grid, in whole kilometres: the value of the formula
\* 2 * 6371.0 * asin(sqrt(sin(dphi/2)^2 + cos(p1) * cos(p2) * sin(dlmb/2)^2)),
\* which depends on the two latitudes and on |lon2 - lon1| only.  Rounding keeps
\* the order and the exact ties of the floating-point values on this grid.
haversine_km(lat1, lon1, lat2, lon2) ==
    LET dlon == Abs(lon2 - lon1) IN
    CASE lat1 = lat2 /\ dlon = 0 -> 0
      [] lat1 = 0 /\ lat2 = 0 /\ dlon = 10 -> 1112
      [] lat1 = 0 /\ lat2 = 0 /\ dlon = 20 -> 2224
      [] lat1 = 40 /\ lat2 = 40 /\ dlon = 10 -> 851
      [] lat1 = 40 /\ lat2 = 40 /\ dlon = 20 -> 1700
      [] lat1 # lat2 /\ dlon = 0 -> 4448
      [] lat1 # lat2 /\ dlon = 10 -> 4562
      [] lat1 # lat2 /\ dlon = 20 -> 4888

\* js.get("results", []) if isinstance(js, dict) else []
results_of(js) == IF js.dict /\ js.has THEN js.results ELSE <<>>

\* A scan in which a later item with an equal key replaces the one held.
min_replaces_ties(key, held) == key <= held

\* min(): a later item replaces the one held only when its key is strictly smaller.
min_replaces(key, held) == key < held

RECURSIVE min_scan(_, _, _, _, _)
min_scan(lat, lon, results, k, held) ==
    IF k > Len(results) THEN held
    ELSE LET key(s) == haversine_km(lat, lon, s.latitude, s.longitude) IN
         min_scan(lat, lon, results, k + 1,
                  IF min_replaces(key(results[k]), key(results[held])) THEN k ELSE held)

\* The distance attached as dist_km.
dist_of(lat, lon, s) == haversine_km(lat, lon, s.latitude, s.longitude)

\* Lines 67-73: None (Null) when there are no results, else the nearest station
\* with its dist_km.
nearest_station(lat, lon, js) ==
    LET results == results_of(js) IN
    IF results = <<>> THEN Null
    ELSE LET b == results[min_scan(lat, lon, results, 2, 1)] IN
         Some([id |-> b.id, latitude |-> b.latitude, longitude |-> b.longitude,
               dist_km |-> dist_of(lat, lon, b)])

\* The stations responses: a body that is no dict, a dict without "results", and a
\* dict with up to MaxStations stations, the k-th with id k.
StationLists(max) ==
    UNION {{[k \in 1..n |-> [id |-> k, latitude |-> f[k].lat, longitude |-> f[k].lon]] :
            f \in [1..n -> GridPoints]} : n \in 0..max}

StationJson(max) ==
    {NoJson, [dict |-> TRUE, has |-> FALSE, results |-> <<>>]}
    \cup [dict : {TRUE}, has : {TRUE}, results : StationLists(max)]

NoCalls == [stations |-> 0, data |-> 0]

\* find_nearest_station: one iteration of its ncei_request call per step; the
\* step in which the request returns also does lines 67-73.
StationStep(jsSet) ==
    /\ spc = "request"
    /\ req.state = "running"
    /\ \E out \in GetOutcomes(jsSet, {TextLimit + 1}) :
        LET st == ncei_attempt(req, out) IN
        /\ req' = st
        /\ spc' = CASE st.state = "returned" -> "returned"
                    [] st.state = "raised" -> "raised"
                    [] OTHER -> "request"
        /\ best' = IF st.state = "returned"
                   THEN nearest_station(origin.lat, origin.lon, st.ret) ELSE best
    /\ calls' = IF req.log = <<>> THEN [calls EXCEPT !.stations = @ + 1] ELSE calls
    /\ UNCHANGED <<origin, fetchVars, mpc, events, joined, written, sridVars, osmVars>>

StationAttempt == StationStep(StationJson(MaxStations))

\* ------------------------------------------------------------------------
\* fetch_daily_chunked (noaa_weather_join.py 75-107)
\* ------------------------------------------------------------------------

MaxDay == 5
MaxChunkDays == 3
MaxRecs == 2

\* pd.to_datetime(..., utc=True, errors="coerce").dt.tz_convert(None).dt.normalize():
\* the UTC calendar date of a timestamp, NaT for an unparseable one.
to_utc_date(raw) ==
    IF raw.ok THEN Some((raw.day * 24 + raw.hour - raw.off) \div 24) ELSE Null

\* A timestamp string of midnight UTC on `day`, as the service writes dates.
Midnight(day) == [ok |-> TRUE, day |-> day, hour |-> 0, off |-> 0]
Rec(day, datatype, value) == [date |-> Midnight(day), datatype |-> datatype, value |-> value]

RECURSIVE concat(_)
concat(fs) == IF fs = <<>> THEN <<>> ELSE Head(fs) \o concat(Tail(fs))

\* DataFrame.drop_duplicates(): a row equal to an earlier row is dropped.
RECURSIVE drop_duplicates(_)
drop_duplicates(rows) ==
    IF rows = <<>> THEN <<>>
    ELSE LET init == drop_duplicates(SubSeq(rows, 1, Len(rows) - 1))
             last == rows[Len(rows)] IN
         IF \E k \in 1..Len(init) : init[k] = last THEN init ELSE Append(init, last)

\* The rows of one (date, datatype) group, in row order.  A row whose date is NaT
\* belongs to no group.
group_rows(rows, d, t) ==
    SelectSeq(rows, LAMBDA r : to_utc_date(r.date) = Some(d) /\ r.datatype = t)

\* An aggregate that keeps the last non-null value of the group.
agg_last(values) ==
    LET valid == SelectSeq(values, LAMBDA v : v # Null) IN
    IF valid = <<>> THEN Null ELSE valid[Len(valid)]

\* aggfunc="first": the first non-null value of the group, NaN when it has none.
agg_first(values) ==
    LET valid == SelectSeq(values, LAMBDA v : v # Null) IN
    IF valid = <<>> THEN Null ELSE Head(valid)

group_values(rows, d, t) ==
    LET g == group_rows(rows, d, t) IN [k \in 1..Len(g) |-> g[k].value]

RECURSIVE sorted(_)
sorted(S) ==
    IF S = {} THEN <<>>
    ELSE LET m == CHOOSE x \in S : \A y \in S : x <= y IN <<m>> \o sorted(S \ {m})

\* The index of the pivoted table: one entry per date of the groups kept.
pivot_index(dates) == sorted({d[1] : d \in dates})

\* df.pivot_table(index="date", columns="datatype", values="value", aggfunc="first")
\* .reset_index(): the groups are aggregated, the groups whose aggregate is NaN are
\* dropped, and the rest is laid out with one row per date, sorted, and one column
\* per datatype.
pivot_table(rows) ==
    LET dates == {to_utc_date(rows[k].date) : k \in 1..Len(rows)} \ {Null}
        types == {rows[k].datatype : k \in 1..Len(rows)}
        agged == [g \in {<<d[1], t>> : d \in dates, t \in types} |->
                     agg_first(group_values(rows, g[1], g[2]))]
        kept  == {g \in DOMAIN agged : agged[g] # Null}
        cols  == {g[2] : g \in kept}
        index == pivot_index({d \in dates : \E g \in kept : g[1] = d[1]}) IN
    [cols |-> cols,
     rows |-> [k \in 1..Len(index) |->
                 [date |-> index[k],
                  vals |-> [t \in cols |->
                              IF <<index[k], t>> \in kept THEN agged[<<index[k], t>>] ELSE Null]]]]

\* pd.DataFrame(columns=["date"])
EmptyTable == [cols |-> {}, rows |-> <<>>]

\* Lines 101-107.
pivot_daily(fs) ==
    IF fs = <<>> THEN EmptyTable ELSE pivot_table(drop_duplicates(concat(fs)))

\* A chunk end that is not capped at end_dt.
chunk_end_uncapped(cur, days, end) == cur + days - 1

\* min(current + pd.Timedelta(days=chunk_days-1), end_dt)
chunk_end_of(cur, days, end) == Min(cur + days - 1, end)

\* current = chunk_end + pd.Timedelta(days=1)
next_cursor(chunk_end) == chunk_end + 1

\* What the data endpoint may answer for the chunk s..e: a body that is no dict,
\* a dict with no results, and a few record lists, which carry the chunk's start
\* day as their value so that a chunk's data is known by it.
ChunkResults(s, e) ==
    { <<Rec(s + 1, "TMAX", Some(s))>>,
      <<Rec(s + 1, "TMAX", Null), Rec(e - 1, "PRCP", Some(s))>>,
      <<Rec(s, "TMAX", Null)>> }

ChunkJson(s, e) ==
    {NoJson, [dict |-> TRUE, has |-> TRUE, results |-> <<>>]}
    \cup [dict : {TRUE}, has : {TRUE}, results : ChunkResults(s, e)]

\* An except clause that names the descriptive failure only.
chunk_except_runtime_only(exc_type) == exc_type = "RuntimeError"

\* except Exception: every exception ncei_request can raise is caught by the chunk
\* loop, printed, and the loop goes on.
chunk_except(exc_type) ==
    exc_type \in {"RuntimeError", "JSONDecodeError", "ReadTimeout", "ConnectionError",
                  "TooManyRedirects"}

\* One iteration of ncei_request for the chunk at the cursor (lines 81-99).  The
\* first iteration issues the chunk's request; the iteration in which the request
\* returns or raises finishes the chunk and advances the cursor.
FetchChunkAttempt ==
    /\ fpc = "loop"
    /\ current <= end_dt
    /\ LET chunk_end == chunk_end_of(current, chunk_days, end_dt)
           first == req.state # "running"
           issued == IF first
                     THEN Append(requests, [startdate |-> current, enddate |-> chunk_end,
                                            outcome |-> "pending", results |-> <<>>])
                     ELSE requests
           n == Len(issued) IN
       \E out \in GetOutcomes(ChunkJson(current, chunk_end), {TextLimit + 1}) :
          LET st == ncei_attempt(IF first THEN NewRequest ELSE req, out)
              res == results_of(st.ret) IN
          /\ calls' = IF first THEN [calls EXCEPT !.data = @ + 1] ELSE calls
          /\ CASE st.state = "running" ->
                    /\ req' = st
                    /\ requests' = issued
                    /\ UNCHANGED <<fpc, current, frames>>
               [] st.state = "returned" ->
                    /\ req' = NoRequest
                    /\ requests' = [issued EXCEPT ![n].outcome = "ok", ![n].results = res]
                    /\ frames' = IF res # <<>> THEN Append(frames, res) ELSE frames
                    /\ current' = next_cursor(chunk_end)
                    /\ UNCHANGED fpc
               [] st.state = "raised" /\ chunk_except(st.exc.type) ->
                    /\ req' = NoRequest
                    /\ requests' = [issued EXCEPT ![n].outcome = "failed"]
                    /\ current' = next_cursor(chunk_end)
                    /\ UNCHANGED <<fpc, frames>>
               [] OTHER ->
                    /\ req' = NoRequest
                    /\ requests' = [issued EXCEPT ![n].outcome = "failed"]
                    /\ fpc' = "raised"
                    /\ UNCHANGED <<current, frames>>
    /\ UNCHANGED <<stationVars, start_dt, end_dt, chunk_days, daily, mpc, events, joined,
                   written, sridVars, osmVars>>

\* The loop has ended: lines 101-107.
FetchReturn ==
    /\ fpc = "loop"
    /\ current > end_dt
    /\ daily' = pivot_daily(frames)
    /\ fpc' = "returned"
    /\ UNCHANGED <<req, stationVars, start_dt, end_dt, chunk_days, current, frames,
                   requests, mainVars, sridVars, osmVars>>

\* ------------------------------------------------------------------------
\* main (noaa_weather_join.py 109-158)
\* ------------------------------------------------------------------------

MaxEvents == 2
DefaultChunkDays == 30

\* The days event timestamps fall on; the last is more than a chunk away.
EventDays == {2, 40}

\* A date_modified / date_created cell: empty, unparseable, or a UTC timestamp.
EmptyCell == [kind |-> "null", day |-> 0]
BadCell == [kind |-> "bad", day |-> 0]
Cells == {EmptyCell, BadCell} \cup [kind : {"ts"}, day : EventDays]

EventRows == [date_modified : Cells, date_created : {EmptyCell, [kind |-> "ts", day |-> 3]}]
EventTables(max) == UNION {[1..n -> EventRows] : n \in 0..max}

\* pd.to_datetime(date_modified.fillna(date_created), utc=True, errors="coerce"),
\* to the day: NaT for an empty or unparseable cell.
event_dt(e) ==
    LET cell == IF e.date_modified.kind # "null" THEN e.date_modified ELSE e.date_created IN
    IF cell.kind = "ts" THEN Some(cell.day) ELSE Null

event_days(evs) == {event_dt(evs[k])[1] : k \in {j \in 1..Len(evs) : event_dt(evs[j]) # Null}}

\* pd.isna(evt_min) or pd.isna(evt_max)
no_valid_timestamps(evs) == event_days(evs) = {}

\* start and end: the event window with one day of padding on each side.
window_start(evs) == (CHOOSE d \in event_days(evs) : \A x \in event_days(evs) : d <= x) - 1
window_end(evs) == (CHOOSE d \in event_days(evs) : \A x \in event_days(evs) : d >= x) + 1

\* The rows of `table` an event row joins to: those whose noaa_date equals its
\* _event_date (pandas matches a null key to a null key).
merge_matches(e, table) ==
    SelectSeq(table.rows, LAMBDA row : Some(row.date) = event_dt(e))

\* events.merge(daily, left_on="_event_date", right_on="noaa_date", how="left"):
\* in the order of the events, one output row per matching row of daily, and one
\* row with empty observation columns for an event that matches none.
\* how="inner": an event row that matches nothing is dropped.
unmatched_dropped(k) == <<>>

\* how="left": an event row that matches nothing is kept, its observation empty.
unmatched_rows(k) == <<[event |-> k, obs |-> Null]>>

RECURSIVE left_merge(_, _, _)
left_merge(evs, table, k) ==
    IF k > Len(evs) THEN <<>>
    ELSE LET m == merge_matches(evs[k], table)
             out == IF m = <<>> THEN unmatched_rows(k)
                    ELSE [j \in 1..Len(m) |-> [event |-> k, obs |-> Some(m[j])]] IN
         out \o left_merge(evs, table, k + 1)

\* A run that does not look at daily.empty.
table_never_empty(table) == FALSE

\* daily.empty
table_empty(table) == table.rows = <<>>

\* Lines 110-143, up to the call of find_nearest_station.  NOAA_TOKEN is set.  The
\* representative point (the median of the coordinates) is taken as given.
MainStart ==
    /\ mpc = "start"
    /\ IF no_valid_timestamps(events)
       THEN /\ mpc' = "exit_no_timestamps"
            /\ UNCHANGED <<req, stationVars>>
       ELSE /\ mpc' = "station"
            /\ spc' = "request"
            /\ origin' \in GridPoints
            /\ req' = NewRequest
            /\ UNCHANGED best
    /\ UNCHANGED <<fetchVars, events, joined, written, calls, sridVars, osmVars>>

\* The stations answers of a run of main: no dict, no station, one station, and two
\* stations at the same distance from some origins.
MainStationJson ==
    {NoJson,
     [dict |-> TRUE, has |-> TRUE, results |-> <<>>],
     [dict |-> TRUE, has |-> TRUE,
      results |-> <<[id |-> 1, latitude |-> 0, longitude |-> 20]>>],
     [dict |-> TRUE, has |-> TRUE,
      results |-> <<[id |-> 1, latitude |-> 0, longitude |-> 20],
                    [id |-> 2, latitude |-> 0, longitude |-> 0]>>]}

MainStationAttempt == mpc = "station" /\ StationStep(MainStationJson)

\* Lines 143-148: find_nearest_station has returned or raised.
MainAfterStation ==
    /\ mpc = "station"
    /\ spc \in {"returned", "raised"}
    /\ spc' = "idle"
    /\ req' = NoRequest
    /\ CASE spc = "raised" ->
              /\ mpc' = "crashed"
              /\ UNCHANGED fetchVars
         [] spc = "returned" /\ best = Null ->
              /\ mpc' = "exit_no_station"
              /\ UNCHANGED fetchVars
         [] OTHER ->
              /\ mpc' = "fetch"
              /\ fpc' = "loop"
              /\ start_dt' = window_start(events)
              /\ end_dt' = window_end(events)
              /\ chunk_days' = DefaultChunkDays
              /\ current' = window_start(events)
              /\ frames' = <<>>
              /\ requests' = <<>>
              /\ UNCHANGED daily
    /\ UNCHANGED <<origin, best, events, joined, written, calls, sridVars, osmVars>>

MainFetchAttempt == mpc = "fetch" /\ FetchChunkAttempt

MainFetchReturn == mpc = "fetch" /\ FetchReturn

\* Lines 149-158: fetch_daily_chunked has returned.
MainAfterFetch ==
    /\ mpc = "fetch"
    /\ fpc = "returned"
    /\ fpc' = "idle"
    /\ IF table_empty(daily)
       THEN /\ mpc' = "exit_no_observations"
            /\ UNCHANGED <<joined, written>>
       ELSE /\ joined' = left_merge(events, daily, 1)
            /\ written' = TRUE
            /\ mpc' = "done"
    /\ UNCHANGED <<req, stationVars, start_dt, end_dt, chunk_days, current, frames,
                   requests, daily, events, calls, sridVars, osmVars>>

\* ------------------------------------------------------------------------
\* strip_srid (common.py 29-35)
\* ------------------------------------------------------------------------

MaxPieces == 4

SridPrefix == <<"S", "R", "I", "D", "=">>

\* The input strings: up to MaxPieces pieces, each the prefix token or one character.
Pieces == {SridPrefix, <<";">>, <<"4">>, <<"P">>, <<"S">>}
Strings(max) == UNION {{concat(f) : f \in [1..n -> Pieces]} : n \in 0..max}

\* A test of the first character of the prefix only.
startswith_first_char(g, p) == Len(g) >= 1 /\ g[1] = p[1]

\* str.startswith
startswith(g, p) == Len(g) >= Len(p) /\ SubSeq(g, 1, Len(p)) = p

\* str.split(sep, 1): the string itself when it holds no separator, else the
\* parts before and after the first one.
split_first(g, sep) ==
    IF \E k \in 1..Len(g) : g[k] = sep
    THEN LET k == CHOOSE i \in 1..Len(g) : g[i] = sep /\ \A j \in 1..(i - 1) : g[j] # sep IN
         <<SubSeq(g, 1, k - 1), SubSeq(g, k + 1, Len(g))>>
    ELSE <<g>>

\* strip_srid of a string: the value returned, or the IndexError of [1] on a
\* one-part split.
strip_srid(g) ==
    IF startswith(g, SridPrefix)
    THEN LET parts == split_first(g, ";") IN
         IF Len(parts) >= 2 THEN [raised |-> FALSE, value |-> parts[2]]
         ELSE [raised |-> TRUE, value |-> <<>>]
    ELSE [raised |-> FALSE, value |-> g]

NotStripped == [raised |-> FALSE, value |-> <<>>]

\* strip_srid(geom), and strip_srid of its result.
StripTwice ==
    /\ gpc = "input"
    /\ gpc' = "done"
    /\ once' = strip_srid(geom)
    /\ twice' = IF strip_srid(geom).raised THEN strip_srid(geom)
                ELSE strip_srid(strip_srid(geom).value)
    /\ UNCHANGED <<req, stationVars, fetchVars, mainVars, geom, osmVars>>

\* ------------------------------------------------------------------------
\* main (osm_infrastructure_join.py 54-104)
\* ------------------------------------------------------------------------

MaxPerims == 3
PaceTenths == 12

\* The geom cells of the perimeter table: empty, WKT, EWKT, malformed WKT, and a
\* prefix with no separator.
PerimGeoms == { <<>>, <<"P">>, SridPrefix \o <<"4", ";", "P">>, <<"4">>, SridPrefix \o <<"4">> }
PerimTables(max) == UNION {[1..n -> PerimGeoms] : n \in 0..max}

\* wkt.loads succeeds on well-formed WKT, here the one-character geometry "P".
wkt_loads_ok(text) == text = <<"P">>

\* Lines 68-78: the perimeter ids (1-based row positions) whose geometry parses.
RECURSIVE centroids_of(_, _)
centroids_of(table, i) ==
    IF i > Len(table) THEN <<>>
    ELSE LET wkt_text == strip_srid(table[i]).value IN
         IF wkt_text = <<>> \/ ~wkt_loads_ok(wkt_text) THEN centroids_of(table, i + 1)
         ELSE <<i>> \o centroids_of(table, i + 1)

\* Lines 62-83: read the perimeters and compute the centroids; strip_srid is called
\* outside the try block, so its IndexError ends the run.
OsmCentroids ==
    /\ opc = "read"
    /\ IF \E i \in 1..Len(perims) : strip_srid(perims[i]).raised
       THEN opc' = "crashed" /\ UNCHANGED centroids
       ELSE opc' = "query" /\ centroids' = centroids_of(perims, 1)
    /\ UNCHANGED <<req, stationVars, fetchVars, mainVars, sridVars, perims, pos, timeline,
                   all_rows>>

Entry(kind, perim_id, tenths) == [kind |-> kind, perim_id |-> perim_id, tenths |-> tenths]

\* What follows a query in the try block: the rows are collected and the loop
\* sleeps (ok); or the except clause prints a warning.
after_query(ok, perim_id, nrows) ==
    IF ok THEN [rows |-> [k \in 1..nrows |-> perim_id], log |-> <<Entry("sleep", perim_id, PaceTenths)>>]
    ELSE [rows |-> <<>>, log |-> <<>>]

\* Lines 85-94: one iteration of the query loop.
OsmQuery ==
    /\ opc = "query"
    /\ pos <= Len(centroids)
    /\ \E ok \in BOOLEAN, nrows \in 0..1 :
        LET perim_id == centroids[pos]
            after == after_query(ok, perim_id, nrows) IN
        /\ ok \/ nrows = 0
        /\ timeline' = (timeline \o <<Entry("query", perim_id, 0)>>) \o after.log
        /\ all_rows' = all_rows \o after.rows
    /\ pos' = pos + 1
    /\ UNCHANGED <<req, stationVars, fetchVars, mainVars, sridVars, opc, perims, centroids>>

\* Lines 96-99: the table is written.
OsmWrite ==
    /\ opc = "query"
    /\ pos > Len(centroids)
    /\ opc' = "done"
    /\ UNCHANGED <<req, stationVars, fetchVars, mainVars, sridVars, perims, centroids, pos,
                   timeline, all_rows>>

\* ------------------------------------------------------------------------
\* Initial states and specifications
\* ------------------------------------------------------------------------

StationIdle == spc = "idle" /\ origin = [lat |-> 0, lon |-> 0] /\ best = Null
FetchIdle ==
    /\ fpc = "idle" /\ start_dt = 0 /\ end_dt = 0 /\ chunk_days = DefaultChunkDays
    /\ current = 0 /\ frames = <<>> /\ requests = <<>> /\ daily = EmptyTable
MainIdle ==
    mpc = "idle" /\ events = <<>> /\ joined = <<>> /\ written = FALSE /\ calls = NoCalls
SridIdle == gpc = "idle" /\ geom = <<>> /\ once = NotStripped /\ twice = NotStripped
OsmIdle ==
    /\ opc = "idle" /\ perims = <<>> /\ centroids = <<>> /\ pos = 1
    /\ timeline = <<>> /\ all_rows = <<>>

\* A call of ncei_request.
InitReq ==
    /\ req = NewRequest
    /\ StationIdle /\ FetchIdle /\ MainIdle /\ SridIdle /\ OsmIdle
SpecReq == InitReq /\ [][NceiAttempt]_vars

\* A call of find_nearest_station from an origin of the grid.
InitStation ==
    /\ req = NewRequest
    /\ spc = "request" /\ origin \in GridPoints /\ best = Null
    /\ FetchIdle /\ MainIdle /\ SridIdle /\ OsmIdle
SpecStation == InitStation /\ [][StationAttempt]_vars

\* A call of fetch_daily_chunked over a date range, with a chunk size of at least 1.
InitFetch ==
    /\ ReqIdle /\ StationIdle /\ MainIdle /\ SridIdle /\ OsmIdle
    /\ fpc = "loop"
    /\ start_dt \in 1..MaxDay /\ end_dt \in 1..MaxDay /\ chunk_days \in 1..MaxChunkDays
    /\ current = start_dt
    /\ frames = <<>> /\ requests = <<>> /\ daily = EmptyTable
NextFetch == FetchChunkAttempt \/ FetchReturn
SpecFetch == InitFetch /\ [][NextFetch]_vars

\* The records chunk responses are made of: an unparseable date, midnight UTC of
\* days 1 and 2, and a midnight of day 2 five hours east of UTC, which is day 1.
RawDates ==
    {[ok |-> FALSE, day |-> 0, hour |-> 0, off |-> 0], Midnight(1), Midnight(2),
     [ok |-> TRUE, day |-> 2, hour |-> 0, off |-> 5]}
Records == [date : RawDates, datatype : {"TMAX", "PRCP"}, value : {Null, Some(1), Some(2)}]
RecordLists(max) == UNION {[1..n -> Records] : n \in 1..max}

\* The frames of one or two chunks whose responses hold up to `max` records.
FrameLists(max) ==
    {<<>>} \cup {<<l>> : l \in RecordLists(max)}
    \cup UNION {{<<SubSeq(l, 1, c), SubSeq(l, c + 1, Len(l))>> : c \in 1..(Len(l) - 1)} :
                l \in RecordLists(max)}

\* fetch_daily_chunked at the end of its loop, after one-day chunks that each
\* returned a frame.
InitPivot ==
    /\ ReqIdle /\ StationIdle /\ MainIdle /\ SridIdle /\ OsmIdle
    /\ fpc = "loop"
    /\ frames \in FrameLists(MaxRecs)
    /\ start_dt = 1 /\ chunk_days = 1
    /\ end_dt = IF frames = <<>> THEN 1 ELSE Len(frames)
    /\ current = end_dt + 1
    /\ requests = [k \in 1..end_dt |->
                     [startdate |-> k, enddate |-> k, outcome |-> "ok",
                      results |-> IF frames = <<>> THEN <<>> ELSE frames[k]]]
    /\ daily = EmptyTable
SpecPivot == InitPivot /\ [][FetchReturn]_vars

\* A run of the weather pipeline's main over an events table.
InitMain ==
    /\ ReqIdle /\ StationIdle /\ FetchIdle /\ SridIdle /\ OsmIdle
    /\ mpc = "start" /\ events \in EventTables(MaxEvents)
    /\ joined = <<>> /\ written = FALSE /\ calls = NoCalls
NextMain ==
    \/ MainStart
    \/ MainStationAttempt
    \/ MainAfterStation
    \/ MainFetchAttempt
    \/ MainFetchReturn
    \/ MainAfterFetch
SpecMain == InitMain /\ [][NextMain]_vars

\* strip_srid applied once and twice to a string.
InitSrid ==
    /\ ReqIdle /\ StationIdle /\ FetchIdle /\ MainIdle /\ OsmIdle
    /\ gpc = "input" /\ geom \in Strings(MaxPieces) /\ once = NotStripped /\ twice = NotStripped
SpecSrid == InitSrid /\ [][StripTwice]_vars

\* A run of the amenity pipeline's main over a perimeter table.
InitOsm ==
    /\ ReqIdle /\ StationIdle /\ FetchIdle /\ MainIdle /\ SridIdle
    /\ opc = "read" /\ perims \in PerimTables(MaxPerims) /\ centroids = <<>> /\ pos = 1
    /\ timeline = <<>> /\ all_rows = <<>>
NextOsm == OsmCentroids \/ OsmQuery \/ OsmWrite
SpecOsm == InitOsm /\ [][NextOsm]_vars

\* ------------------------------------------------------------------------
\* Properties of ncei_request (under SpecReq)
\* ------------------------------------------------------------------------

IsErrorStatus(out) == out.kind = "response" /\ out.status >= 400
IsNon2xx(out) == out.kind = "response" /\ ~(200 <= out.status /\ out.status < 300)
IsRetried(out) == out.kind \in {"ReadTimeout", "ConnectionError"}

\* The call ended at attempt k (1-based) with the descriptive failure for log[k]:
\* it is the last attempt, no sleep follows it, and the failure carries its status
\* code and at most the first 400 characters of its body.
EndsDescriptive(k) ==
    /\ k = Len(req.log)
    /\ req.state = "raised"
    /\ req.exc.type = "RuntimeError"
    /\ req.exc.status = req.log[k].status
    /\ req.exc.textLen <= 400
    /\ req.exc.textLen = Min(req.log[k].textLen, 400)
    /\ \A j \in 1..Len(req.sleeps) : req.sleeps[j].after < k - 1

\* C7, as stated: a non-2xx response on any attempt ends the call at once with a
\* single descriptive failure carrying the status code and at most the first 400
\* characters of the body, with no further attempt and no sleep after it.
C7_Non2xxEndsDescriptive ==
    \A k \in 1..Len(req.log) : IsNon2xx(req.log[k]) => EndsDescriptive(k)

\* C7, amended: a 4xx or 5xx response on any attempt ends the call at once with a
\* single descriptive failure carrying the status code and at most the first 400
\* characters of the body, with no further attempt and no sleep after it.
C7_ErrorStatusEndsDescriptive ==
    \A k \in 1..Len(req.log) : IsErrorStatus(req.log[k]) => EndsDescriptive(k)

\* C7, witness: after a retried timeout, a 404 with a body of more than 400
\* characters has ended the call with a message of 400 characters.
C7_Witness ==
    /\ Len(req.log) = 2
    /\ IsRetried(req.log[1])
    /\ req.log[2].kind = "response" /\ req.log[2].status = 404 /\ req.log[2].textLen > 400
    /\ req.state = "raised" /\ req.exc.textLen = 400

\* C8: read-timeout and connection exceptions are retried: at most 3 session.get
\* calls are made; every call but the last raised one of the two; the sleep after
\* failed attempt i (0-based) is 2*(i+1) seconds and none follows the third
\* attempt; when all 3 attempts raise one of the two, the last exception is
\* raised again; when an attempt succeeds, its JSON body is returned and it is
\* the last attempt.
C8_RetryLoop ==
    /\ Len(req.log) <= 3
    /\ \A k \in 1..(Len(req.log) - 1) : IsRetried(req.log[k])
    /\ Len(req.sleeps) = (IF req.state = "running" THEN Len(req.log) ELSE Len(req.log) - 1)
    /\ Len(req.sleeps) <= 2
    /\ \A j \in 1..Len(req.sleeps) :
          req.sleeps[j].after = j - 1 /\ req.sleeps[j].secs = 2 * ((j - 1) + 1)
    /\ (Len(req.log) = 3 /\ IsRetried(req.log[3]))
          => (req.state = "raised" /\ req.exc.type = req.log[3].kind)
    /\ \A k \in 1..Len(req.log) :
          (req.log[k].kind = "response" /\ req.log[k].status < 400 /\ req.log[k].valid)
              => (k = Len(req.log) /\ req.state = "returned" /\ req.ret = req.log[k].js)
    /\ req.state = "running" => Len(req.log) < 3

\* C8, witness: three attempts raised, a connection error last; the loop slept 2
\* and 4 seconds and raised the connection error again.
C8_Witness ==
    /\ Len(req.log) = 3
    /\ req.log[1].kind = "ReadTimeout" /\ req.log[3].kind = "ConnectionError"
    /\ req.state = "raised" /\ req.exc.type = "ConnectionError"
    /\ req.sleeps = <<[after |-> 0, secs |-> 2], [after |-> 1, secs |-> 4]>>

\* ------------------------------------------------------------------------
\* Properties of fetch_daily_chunked (under SpecFetch and SpecPivot)
\* ------------------------------------------------------------------------

\* The requests issued so far are in increasing date order, start at start_dt, are
\* contiguous and non-overlapping, and each spans 1 to chunk_days days up to end_dt.
ChunksContiguous ==
    /\ requests # <<>> => requests[1].startdate = start_dt
    /\ \A k \in 1..Len(requests) :
          /\ requests[k].startdate <= requests[k].enddate
          /\ requests[k].enddate - requests[k].startdate + 1 <= chunk_days
          /\ requests[k].enddate <= end_dt
          /\ k < Len(requests) => requests[k + 1].startdate = requests[k].enddate + 1

\* C1: for start <= end and a chunk size of at least 1, the chunk requests are
\* issued in increasing date order, s_1 = start, s_i <= e_i, every chunk spans at
\* most chunk_days days, s_(i+1) = e_i + 1, and when the call returns e_n = end:
\* the sub-ranges are contiguous, non-overlapping and cover [start, end] exactly.
C1_ChunksCoverRange ==
    start_dt <= end_dt =>
        /\ ChunksContiguous
        /\ fpc = "returned" =>
              /\ requests # <<>>
              /\ requests[Len(requests)].enddate = end_dt

\* C1, witness: a call has returned after three chunks, the last of them cut
\* short at end_dt.
C1_Witness ==
    /\ fpc = "returned"
    /\ Len(requests) = 3
    /\ chunk_days = 2
    /\ requests[3].startdate = requests[3].enddate

\* The non-null cells of a table, and the non-null values of the records of the
\* chunk requests that returned.
CellsOf(table) ==
    {c \in {<<table.rows[k].date, t, table.rows[k].vals[t]>> :
                k \in 1..Len(table.rows), t \in table.cols} : c[3] # Null}

DataReturned ==
    UNION {{<<to_utc_date(requests[k].results[j].date)[1], requests[k].results[j].datatype,
              requests[k].results[j].value>> :
               j \in {i \in 1..Len(requests[k].results) : requests[k].results[i].value # Null}} :
           k \in {i \in 1..Len(requests) : requests[i].outcome = "ok"}}

\* C2: a chunk request that fails is absorbed: the failure never leaves the call;
\* once a request has failed the cursor is past its chunk; when the call returns
\* every chunk up to end_dt was requested, and the table holds exactly the data of
\* the chunks whose request returned.
C2_FailedChunkSkipped ==
    /\ fpc \in {"loop", "returned"}
    /\ \A k \in 1..Len(requests) :
          requests[k].outcome = "failed" =>
              /\ current > requests[k].enddate
              /\ (k = Len(requests) /\ current <= end_dt) => fpc = "loop"
    /\ (requests # <<>> /\ requests[Len(requests)].outcome # "pending")
          => current = requests[Len(requests)].enddate + 1
    /\ (fpc = "returned" /\ start_dt <= end_dt) =>
          /\ requests # <<>> /\ requests[Len(requests)].enddate = end_dt
          /\ \A k \in 1..Len(requests) : requests[k].outcome # "pending"
          /\ CellsOf(daily) = DataReturned

\* C2, witness: of three chunks the second failed and the others returned data;
\* the table holds the data of the first and of the third.
C2_Witness ==
    /\ fpc = "returned"
    /\ Len(requests) = 3
    /\ requests[1].outcome = "ok" /\ requests[1].results # <<>>
    /\ requests[2].outcome = "failed"
    /\ requests[3].outcome = "ok" /\ requests[3].results # <<>>
    /\ {c[3] : c \in CellsOf(daily)} = {Some(requests[1].startdate), Some(requests[3].startdate)}

\* The records of the merged chunk responses, in chunk-request order.
Merged == concat(frames)

RowDates(table) == {table.rows[k].date : k \in 1..Len(table.rows)}

\* The k of the records of the merged responses with date d and type t.
PairRecords(d, t) ==
    {k \in 1..Len(Merged) : to_utc_date(Merged[k].date) = Some(d) /\ Merged[k].datatype = t}

FirstOf(ks) == CHOOSE k \in ks : \A j \in ks : k <= j

OneRowPerDate(table) ==
    \A j, k \in 1..Len(table.rows) : j # k => table.rows[j].date # table.rows[k].date

\* C3, as stated: the table has exactly one row per distinct calendar date present
\* in the merged chunk responses, and the value of a (date, type) pair is the
\* first one encountered in chunk-request order.
C3_FirstSeenPerDate ==
    fpc = "returned" =>
        /\ OneRowPerDate(daily)
        /\ RowDates(daily) =
              {to_utc_date(Merged[k].date)[1] :
                  k \in {j \in 1..Len(Merged) : to_utc_date(Merged[j].date) # Null}}
        /\ \A k \in 1..Len(daily.rows) : \A t \in daily.cols :
              LET ks == PairRecords(daily.rows[k].date, t) IN
              daily.rows[k].vals[t] = IF ks = {} THEN Null ELSE Merged[FirstOf(ks)].value

\* C3, amended: the table has exactly one row per distinct calendar date for
\* which the merged chunk responses hold a non-null value, and the value of a
\* (date, type) pair is the first non-null one encountered in chunk-request order.
C3_FirstNonNullPerDate ==
    fpc = "returned" =>
        /\ OneRowPerDate(daily)
        /\ RowDates(daily) =
              {to_utc_date(Merged[k].date)[1] :
                  k \in {j \in 1..Len(Merged) :
                            to_utc_date(Merged[j].date) # Null /\ Merged[j].value # Null}}
        /\ \A k \in 1..Len(daily.rows) : \A t \in daily.cols :
              LET ks == {j \in PairRecords(daily.rows[k].date, t) : Merged[j].value # Null} IN
              daily.rows[k].vals[t] = IF ks = {} THEN Null ELSE Merged[FirstOf(ks)].value

\* C3, witness: two chunks answered with records of the same UTC date and type
\* that differ in value; the table has one row, holding the first value.
C3_Witness ==
    /\ fpc = "returned"
    /\ Len(frames) = 2
    /\ frames[1][1].date # frames[2][1].date
    /\ to_utc_date(frames[1][1].date) = to_utc_date(frames[2][1].date)
    /\ frames[1][1].datatype = frames[2][1].datatype
    /\ frames[1][1].value = Some(1) /\ frames[2][1].value = Some(2)
    /\ Len(daily.rows) = 1
    /\ daily.rows[1].vals[frames[1][1].datatype] = Some(1)

\* ------------------------------------------------------------------------
\* Properties of find_nearest_station (under SpecStation)
\* ------------------------------------------------------------------------

\* The stations of the response the request returned.
Returned == IF req.ret.dict /\ req.ret.has THEN req.ret.results ELSE <<>>

DistTo(s) == haversine_km(origin.lat, origin.lon, s.latitude, s.longitude)

\* C9: find_nearest_station returns None exactly when the response has zero
\* results; otherwise it returns a station of the results whose distance to the
\* origin is at most that of every other station, the first such station in
\* response order on ties, with dist_km set to that station's distance.
C9_NearestFirstOnTies ==
    spc = "returned" =>
        /\ best = Null <=> Len(Returned) = 0
        /\ best # Null =>
              \E k \in 1..Len(Returned) :
                 /\ best[1].id = Returned[k].id
                 /\ best[1].latitude = Returned[k].latitude
                 /\ best[1].longitude = Returned[k].longitude
                 /\ best[1].dist_km = DistTo(Returned[k])
                 /\ \A j \in 1..Len(Returned) : DistTo(Returned[k]) <= DistTo(Returned[j])
                 /\ \A j \in 1..(k - 1) : DistTo(Returned[j]) > DistTo(Returned[k])

\* C9, witness: the response lists a farther station, then two nearest stations at
\* the same distance on either side of the origin; the first of the two is
\* returned.
C9_Witness ==
    /\ spc = "returned"
    /\ Len(Returned) = 3
    /\ DistTo(Returned[1]) > DistTo(Returned[2])
    /\ DistTo(Returned[2]) = DistTo(Returned[3])
    /\ Returned[2].longitude # Returned[3].longitude
    /\ best # Null /\ best[1].id = 2 /\ best[1].dist_km > 0

\* ------------------------------------------------------------------------
\* Properties of the weather pipeline's main (under SpecMain)
\* ------------------------------------------------------------------------

\* C4: the join outputs exactly as many rows as the events table, one per event in
\* input order, whatever the observation rows and however many events (events
\* with an unparseable timestamp included) match no observation date; an event
\* that matches none has empty observation columns, and one that matches has the
\* observations of its date.
C4_JoinKeepsEveryEvent ==
    mpc = "done" =>
        /\ Len(joined) = Len(events)
        /\ \A k \in 1..Len(joined) :
              /\ joined[k].event = k
              /\ joined[k].obs = Null <=>
                    (event_dt(events[k]) = Null
                     \/ \A j \in 1..Len(daily.rows) : Some(daily.rows[j].date) # event_dt(events[k]))
              /\ joined[k].obs # Null => Some(joined[k].obs[1].date) = event_dt(events[k])

\* C4, witness: of two events the first has an unparseable timestamp and the
\* second matches an observation date; both are in the output.
C4_Witness ==
    /\ mpc = "done"
    /\ Len(events) = 2
    /\ events[1].date_modified.kind = "bad"
    /\ Len(joined) = 2
    /\ joined[1].obs = Null
    /\ joined[2].obs # Null

\* C10: the output is written only when an event timestamp is parseable, a station
\* was found and the daily table is not empty (so some chunk request returned);
\* no request at all is made when no timestamp is parseable, no observation
\* request is made when no station is found, and a run that ended on a no-data
\* condition or on a failure has written nothing.
C10_NoDataAborts ==
    LET parseable == \E k \in 1..Len(events) : event_dt(events[k]) # Null IN
    /\ written =>
          /\ parseable
          /\ best # Null
          /\ daily.rows # <<>>
          /\ \E k \in 1..Len(requests) : requests[k].outcome = "ok"
    /\ written <=> mpc = "done"
    /\ ~parseable => (calls = NoCalls /\ mpc \in {"start", "exit_no_timestamps"})
    /\ mpc = "exit_no_timestamps" => ~parseable
    /\ best = Null => calls.data = 0
    /\ mpc = "exit_no_station" => (best = Null /\ calls.stations = 1)
    /\ mpc = "exit_no_observations" => daily.rows = <<>>
    /\ (fpc = "returned" /\ \A k \in 1..Len(requests) : requests[k].outcome = "failed")
          => daily.rows = <<>>

\* C10, witness: a station was found and both chunk requests failed; the run ended
\* on the empty observation set.
C10_Witness ==
    /\ mpc = "exit_no_observations"
    /\ Len(requests) = 2
    /\ \A k \in 1..Len(requests) : requests[k].outcome = "failed"
    /\ best # Null
    /\ ~written

\* ------------------------------------------------------------------------
\* Properties of strip_srid (under SpecSrid)
\* ------------------------------------------------------------------------

\* The string begins with the five characters S, R, I, D, =.
BeginsWithSrid(g) ==
    Len(g) >= 5 /\ g[1] = "S" /\ g[2] = "R" /\ g[3] = "I" /\ g[4] = "D" /\ g[5] = "="

\* C5, as stated: strip_srid is idempotent for every input string, and a string
\* that does not start with the SRID prefix is returned unchanged.
C5_StripIdempotent ==
    gpc = "done" =>
        /\ twice = once
        /\ ~BeginsWithSrid(geom) => once = [raised |-> FALSE, value |-> geom]

\* C5, amended: strip_srid is idempotent for every input string whose result does
\* not itself start with the SRID prefix (every string without the prefix, and
\* every prefixed string whose text after the first ";" does not start with the
\* prefix), and a string that does not start with the SRID prefix is returned
\* unchanged.
C5_StripIdempotentOnWkt ==
    gpc = "done" =>
        /\ (~once.raised /\ ~BeginsWithSrid(once.value)) => twice = once
        /\ ~BeginsWithSrid(geom) => once = [raised |-> FALSE, value |-> geom]

\* C5, witness: "SRID=4;P" was stripped to "P", and stripping again left "P".
C5_Witness ==
    /\ gpc = "done"
    /\ geom = SridPrefix \o <<"4", ";", "P">>
    /\ once = [raised |-> FALSE, value |-> <<"P">>]
    /\ twice = once

\* ------------------------------------------------------------------------
\* Properties of the amenity pipeline's main (under SpecOsm)
\* ------------------------------------------------------------------------

\* C6: between any two successive perimeter queries a pacing delay of at least 1
\* second occurs, whatever the outcome of the earlier query.
C6_PacedQueries ==
    \A j \in 1..Len(timeline) : \A k \in (j + 1)..Len(timeline) :
        (/\ timeline[j].kind = "query"
         /\ timeline[k].kind = "query"
         /\ \A m \in (j + 1)..(k - 1) : timeline[m].kind # "query")
        => \E m \in (j + 1)..(k - 1) : timeline[m].kind = "sleep" /\ timeline[m].tenths >= 10

====
